---- MODULE Spec2Model ----
(***************************************************************************)
(* A model of the taxonomy store of gbifer (package taxonomy) and of the   *)
(* resolution walk that fills it from the GBIF name service (package       *)
(* gbif).                                                                  *)
(*                                                                         *)
(* The store is modelled with its pointers: a taxon node lives at an       *)
(* address of `heap`, and the maps ids, root and every node's children     *)
(* hold addresses, as the Go maps hold *taxon.  Strings that the code      *)
(* transforms character by character (names, integer fields) are           *)
(* sequences of one-character strings; status and rank words are atomic    *)
(* strings with the case mapping of the words that occur.                  *)
(***************************************************************************)
EXTENDS Integers, Sequences, FiniteSets, TLC

VARIABLES
    tx,      \* the Taxonomy: [ids, root, names, heap]
    remote,  \* the GBIF service: identifier -> Species record
    pc,      \* "idle", "walk" (AddFromGBIF loop), "ar" (AcceptedAndRanked loop), "crashed"
    call,    \* the running call: its arguments and local variables
    last,    \* the last finished call: its arguments, result and the store before it
    once,    \* package gbif: sync.Once has run its function
    reqChan, \* package gbif: the request channel in use (0 is nil, else an index of chans)
    chans,   \* the request channels made: [buf, sendq]
    workers, \* the goroutines running reqs(): [rc, pc, r, n, slept, paced]
    procs,   \* the goroutines that call package gbif: [pc, box, got, waited, n]
    opens,   \* the calls of Open made
    pending, \* the callers whose request was started and whose outcome they did not receive yet
    fetch    \* a running SpeciesID or taxonList call

storeVars == <<tx, remote, pc, call, last>>
pipeVars == <<once, reqChan, chans, workers, procs, opens, pending>>
vars == <<tx, remote, pc, call, last, once, reqChan, chans, workers, procs, opens, pending, fetch>>

----------------------------------------------------------------------------
(* Bounds of the model *)

\* identifiers range over 1..MaxId (and 0, "none")
MaxId == 2
\* nodes the heap may hold (live and stale)
MaxNodes == 3
\* fetches one AddFromGBIF walk may issue before the model stops following it
MaxFetch == 3
\* rows of a loaded table
MaxRows == 2
\* candidates a name search may return
MaxCand == 2

\* the goroutines that call package gbif at the same time
NCallers == 3

\* gbif.Buffer, the capacity of the request queue (10 in the program)
Buffer == 2

\* the calls of gbif.Open that are followed
MaxOpens == 3

\* the records a list of the service holds at most
MaxRecs == 3

\* the page sizes of the service
MaxLimit == 2

\* the records of a text, and the characters of a field
MaxTsvRecs == 2
MaxFieldLen == 2

\* gbif.Retry, the attempts made for a request
Retry == 5

Ids == 1..MaxId

----------------------------------------------------------------------------
(* Strings *)

Range(f) == {f[x] : x \in DOMAIN f}

EmptyMap == [x \in {} |-> 0]

MapPut(m, k, v) == [x \in (DOMAIN m) \cup {k} |-> IF x = k THEN v ELSE m[x]]

MapDel(m, k) == [x \in (DOMAIN m) \ {k} |-> m[x]]

\* strings.ToLower, on the letters of the model's alphabet
LowerChar(c) ==
    CASE c = "A" -> "a"
      [] c = "B" -> "b"
      [] OTHER -> c

\* unicode.ToTitle, on the letters of the model's alphabet
TitleChar(c) ==
    CASE c = "a" -> "A"
      [] c = "b" -> "B"
      [] OTHER -> c

IsSpace(c) == c = " "

ToLowerSeq(s) == [i \in 1..Len(s) |-> LowerChar(s[i])]

\* strings.Fields: the maximal runs of non-space characters, in order
RECURSIVE FieldsFrom(_, _, _)
FieldsFrom(s, i, word) ==
    IF i > Len(s)
    THEN IF word = <<>> THEN <<>> ELSE <<word>>
    ELSE IF IsSpace(s[i])
         THEN IF word = <<>>
              THEN FieldsFrom(s, i + 1, <<>>)
              ELSE <<word>> \o FieldsFrom(s, i + 1, <<>>)
         ELSE FieldsFrom(s, i + 1, Append(word, s[i]))

Fields(s) == FieldsFrom(s, 1, <<>>)

\* strings.Join(words, " ")
RECURSIVE JoinSpace(_)
JoinSpace(words) ==
    IF words = <<>> THEN <<>>
    ELSE IF Len(words) = 1 THEN words[1]
    ELSE words[1] \o <<" ">> \o JoinSpace(Tail(words))

\* a sequence built element by element, so that equal strings are equal values
Str(s) == SubSeq(s, 1, Len(s))

\* Canon transforms a name into its canonical form.
Canon(name) ==
    LET joined == JoinSpace(Fields(name))
    IN  IF joined = <<>> THEN <<>>
        ELSE LET low == Str(ToLowerSeq(joined))
             IN  <<TitleChar(low[1])>> \o Tail(low)

\* strings.ToLower on the status and rank words
ToLower(w) ==
    CASE w = "ACCEPTED" -> "accepted"
      [] w = "SYNONYM" -> "synonym"
      [] w = "GENUS" -> "genus"
      [] w = "SPECIES" -> "species"
      [] w = "KINGDOM" -> "kingdom"
      [] w = "VARIETY" -> "variety"
      [] w = "Genus" -> "genus"
      [] w = "Accepted" -> "accepted"
      [] w = "taxonKey" -> "taxonkey"
      [] w = "Name" -> "name"
      [] OTHER -> w

\* strings.TrimSpace, on the status words of the model
TrimSpace(w) ==
    CASE w = " accepted" -> "accepted"
      [] OTHER -> w

Digits == <<"0", "1", "2", "3", "4", "5", "6", "7", "8", "9">>

IsDigit(c) == \E d \in 1..10 : Digits[d] = c

DigitVal(c) == (CHOOSE d \in 1..10 : Digits[d] = c) - 1

RECURSIVE DecVal(_)
DecVal(s) == IF s = <<>> THEN 0 ELSE 10 * DecVal(SubSeq(s, 1, Len(s) - 1)) + DigitVal(s[Len(s)])

\* strconv.ParseInt(s, 10, 64): an optional sign and at least one digit
ParseInt(s) ==
    LET signed == s # <<>> /\ s[1] \in {"-", "+"}
        body == IF signed THEN Tail(s) ELSE s
    IN  IF body = <<>> \/ \E i \in 1..Len(body) : ~IsDigit(body[i])
        THEN [ok |-> FALSE, val |-> 0]
        ELSE [ok |-> TRUE,
              val |-> IF signed /\ s[1] = "-" THEN 0 - DecVal(body) ELSE DecVal(body)]

----------------------------------------------------------------------------
(* Ranks and taxa *)

Unranked == 0
Kingdom == 1
Phylum == 2
Class == 3
Order == 4
Family == 5
Genus == 6
Species == 7

ranks == <<"unranked", "kingdom", "phylum", "class", "order", "family", "genus", "species">>

\* GetRank returns a rank value from a string.
GetRank(s) ==
    IF \E i \in 1..Len(ranks) : ranks[i] = ToLower(s)
    THEN (CHOOSE i \in 1..Len(ranks) : ranks[i] = ToLower(s)) - 1
    ELSE Unranked

\* Taxon{}: the zero value
EmptyTaxon == [Name |-> <<>>, Author |-> <<>>, ID |-> 0, Rank |-> Unranked, Status |-> "", Parent |-> 0]

\* NewTaxonomy creates a new empty taxonomy.
NewTaxonomy == [ids |-> EmptyMap, root |-> EmptyMap, names |-> EmptyMap, heap |-> EmptyMap]

\* the addresses reachable from a set of addresses through children maps
RECURSIVE ReachFrom(_, _)
ReachFrom(heap, S) ==
    LET more == S \cup UNION {Range(heap[a].children) : a \in S}
    IN  IF more = S THEN S ELSE ReachFrom(heap, more)

\* the keys of a map, ascending
RECURSIVE SortedKeys(_)
SortedKeys(S) ==
    IF S = {} THEN <<>>
    ELSE LET m == CHOOSE x \in S : \A y \in S : x <= y
         IN  <<m>> \o SortedKeys(S \ {m})

\* the addresses of seq, then those of the map m that are not in it, by key
RECURSIVE VisitKeys(_, _, _)
VisitKeys(seq, m, keys) ==
    IF keys = <<>> THEN seq
    ELSE VisitKeys(IF m[keys[1]] \in Range(seq) THEN seq ELSE Append(seq, m[keys[1]]),
                   m, Tail(keys))

VisitMap(seq, m) == VisitKeys(seq, m, SortedKeys(DOMAIN m))

RECURSIVE VisitChildren(_, _, _)
VisitChildren(heap, seq, i) ==
    IF i > Len(seq) THEN seq
    ELSE VisitChildren(heap, VisitMap(seq, heap[seq[i]].children), i + 1)

\* the nodes the program can still reach, in the order ids, root, children
Live(t) == VisitChildren(t.heap, VisitMap(VisitMap(<<>>, t.ids), t.root), 1)

\* The garbage collector: unreachable nodes are dropped and the others are
\* renamed by their place in Live (an address is only ever compared with
\* another address, so the program cannot tell).
Collect(t) ==
    LET live == Live(t)
        new(a) == CHOOSE i \in 1..Len(live) : live[i] = a
        move(m) == [k \in DOMAIN m |-> new(m[k])]
    IN  [ids |-> move(t.ids),
         root |-> move(t.root),
         names |-> t.names,
         heap |-> [i \in 1..Len(live) |->
                     [data |-> t.heap[live[i]].data, children |-> move(t.heap[live[i]].children)]]]

\* &taxon{...}: a fresh address
NewAddr(t) == CHOOSE a \in 1..(Cardinality(DOMAIN t.heap) + 1) : a \notin DOMAIN t.heap

\* the first non-zero of AcceptedKey, ParentKey, BasionymKey
PreferredKey(sp) ==
    IF sp.AcceptedKey # 0 THEN sp.AcceptedKey
    ELSE IF sp.ParentKey # 0 THEN sp.ParentKey
    ELSE sp.BasionymKey

\* byName[id] = true, creating the name's set when it is missing
IndexName(names, name, id) ==
    MapPut(names, name, (IF name \in DOMAIN names THEN names[name] ELSE {}) \cup {id})

\* a delTaxon that deleted the whole entry of the name, whoever else bears it
UnindexNameWhole(names, name, id) == MapDel(names, name)

\* delete(byName, id), and delete(tx.names, name) when the set is left empty
UnindexName(names, name, id) ==
    IF name \notin DOMAIN names THEN names
    ELSE IF names[name] \ {id} = {} THEN MapDel(names, name)
    ELSE [names EXCEPT ![name] = @ \ {id}]

\* The name AddSpecies stores and indexes: the record's name as it came.
StoredName(sp) == IF sp.CanonicalName = <<>> THEN sp.Species ELSE sp.CanonicalName

\* The identifier AddSpecies tests for "already in the taxonomy".
KnownKey(sp) == sp.NubKey

\* AddSpecies add a GBIF Species type from an external source.
AddSpecies(t, sp) ==
    IF KnownKey(sp) \in DOMAIN t.ids THEN t
    ELSE IF StoredName(sp) = <<>> THEN t
    ELSE LET id == IF sp.NubKey = 0 THEN sp.Key ELSE sp.NubKey
         IN  IF id = 0 THEN t
             ELSE LET pID == PreferredKey(sp)
                      hasP == pID \in DOMAIN t.ids
                      a == NewAddr(t)
                      data == [Name |-> StoredName(sp),
                               Author |-> sp.Authorship,
                               ID |-> id,
                               Rank |-> GetRank(sp.Rank),
                               Status |-> ToLower(sp.TaxonomicStatus),
                               Parent |-> IF hasP THEN pID ELSE 0]
                      heap1 == MapPut(t.heap, a, [data |-> data, children |-> EmptyMap])
                      heap2 == IF hasP
                               THEN [heap1 EXCEPT ![t.ids[pID]].children = MapPut(@, id, a)]
                               ELSE heap1
                  IN  Collect([ids |-> MapPut(t.ids, id, a),
                               root |-> IF hasP THEN t.root ELSE MapPut(t.root, id, a),
                               names |-> IndexName(t.names, data.Name, id),
                               heap |-> heap2])

\* Taxon returns a taxon with a given ID.
Taxon(t, id) == IF id \in DOMAIN t.ids THEN t.heap[t.ids[id]].data ELSE EmptyTaxon

\* ByName returns the IDs of all the taxons with a given name (as a set; the
\* code returns them sorted).
ByName(t, name) ==
    LET n == Canon(name)
    IN  IF n = <<>> THEN {}
        ELSE IF n \notin DOMAIN t.names THEN {}
        ELSE t.names[n]

\* a node's children pointers lead back to the node: the recursions over
\* children (allChildren, delTaxon) never return
Cyclic(t, a) == a \in ReachFrom(t.heap, Range(t.heap[a].children))

\* allChildren: the ID of every node below the node at address a
allChildren(t, a) == {t.heap[c].data.ID : c \in ReachFrom(t.heap, Range(t.heap[a].children))}

\* Children return the IDs of all children (sub-taxa) of a taxon (as a set;
\* the code returns them sorted).
Children(t, id) == IF id \in DOMAIN t.ids THEN allChildren(t, t.ids[id]) ELSE {}

\* the loop of Parents: at most 20 steps along Parent while the parent is
\* stored (as a set; the code returns the identifiers sorted, with repeats
\* when the path comes back to a node)
RECURSIVE ParentsFrom(_, _, _)
ParentsFrom(t, id, i) ==
    IF i = 0 THEN {}
    ELSE LET pID == Taxon(t, id).Parent
         IN  IF pID \notin DOMAIN t.ids THEN {}
             ELSE {pID} \cup ParentsFrom(t, pID, i - 1)

\* Parents return the ID of all parents of a taxon.
Parents(t, id) == IF id \in DOMAIN t.ids THEN ParentsFrom(t, id, 20) ELSE {}

\* the loops of MinRank and minRank over the ranks rs of a map's nodes: the
\* smallest rank that is not Unranked, or Unranked; -1 when a recursion did
\* not return
LeastRank(rs) ==
    IF -1 \in rs THEN -1
    ELSE IF rs \ {Unranked} = {} THEN Unranked
    ELSE CHOOSE r \in rs \ {Unranked} : \A q \in rs \ {Unranked} : r <= q

\* minRank: the node's own rank when it has one, else the least of its
\* children's; the recursion does not return on unranked nodes that are
\* their own descendants (depth counts down from the number of nodes)
RECURSIVE minRank(_, _, _)
minRank(t, a, depth) ==
    IF t.heap[a].data.Rank # Unranked THEN t.heap[a].data.Rank
    ELSE IF depth = 0 THEN -1
    ELSE LeastRank({minRank(t, c, depth - 1) : c \in Range(t.heap[a].children)})

\* MinRank returns the most inclusive rank found in the taxonomy.
MinRank(t) ==
    LeastRank({minRank(t, a, Cardinality(DOMAIN t.heap)) : a \in Range(t.root)})

\* delTaxon: the children first, then the node: its children map, its name
\* index entry and its entry in ids, both found by the node's own data
RECURSIVE delTaxon(_, _)
RECURSIVE delTaxonAll(_, _)
delTaxonAll(t, S) ==
    IF S = {} THEN t
    ELSE LET c == CHOOSE x \in S : TRUE
         IN  delTaxonAll(delTaxon(t, c), S \ {c})

delTaxon(t, a) ==
    LET t1 == delTaxonAll(t, Range(t.heap[a].children))
        d == t1.heap[a].data
    IN  [t1 EXCEPT !.heap = [@ EXCEPT ![a].children = EmptyMap],
                   !.names = UnindexName(@, d.Name, d.ID),
                   !.ids = MapDel(@, d.ID)]

\* whether Del takes the deleted node out of the root set: the code asks
\* whether the node's parent identifier is (still) a key of ids
DelFromRoot(t, pID) == pID \notin DOMAIN t.ids

\* Del removes a taxon and all of its descendants from a taxonomy.
Del(t, id) ==
    IF id \notin DOMAIN t.ids THEN t
    ELSE LET a == t.ids[id]
             t1 == delTaxon(t, a)
             d == t.heap[a].data
         IN  Collect(IF DelFromRoot(t1, d.Parent)
                     THEN [t1 EXCEPT !.root = MapDel(@, d.ID)]
                     ELSE [t1 EXCEPT !.heap = [@ EXCEPT ![t1.ids[d.Parent]].children = MapDel(@, d.ID)]])

----------------------------------------------------------------------------
(* Read: the persisted table *)

\* the row's fields after the header has been matched
RowTaxon(row, id, parent) ==
    [Name |-> Canon(row.name),
     Author |-> JoinSpace(Fields(row.author)),
     ID |-> id,
     Rank |-> GetRank(row.rank),
     Status |-> ToLower(TrimSpace(row.status)),
     Parent |-> parent]

\* the link step of Read's loop: a row with a parent is put in the children
\* of tx.ids[parent], which is a nil pointer when that row was not read yet
ReadLink(t, a, data) ==
    IF data.Parent # 0
    THEN IF data.Parent \in DOMAIN t.ids
         THEN [res |-> "ok",
               t |-> [t EXCEPT !.heap = [@ EXCEPT ![t.ids[data.Parent]].children = MapPut(@, data.ID, a)]]]
         ELSE [res |-> "panic", t |-> t]
    ELSE [res |-> "ok", t |-> [t EXCEPT !.root = MapPut(@, data.ID, a)]]

\* Read reads a taxonomy from a TSV-encoded file: the rows after the header.
RECURSIVE ReadRows(_, _, _)
ReadRows(t, rows, i) ==
    IF i > Len(rows) THEN [res |-> "ok", t |-> t]
    ELSE LET row == rows[i]
             id == ParseInt(row.taxonKey)
             par == IF row.parent # <<>> THEN ParseInt(row.parent) ELSE [ok |-> TRUE, val |-> 0]
         IN  IF Canon(row.name) = <<>> THEN ReadRows(t, rows, i + 1)
             ELSE IF ~id.ok THEN [res |-> "error", t |-> t]
             ELSE IF id.val \in DOMAIN t.ids THEN ReadRows(t, rows, i + 1)
             ELSE IF ~par.ok THEN [res |-> "error", t |-> t]
             ELSE LET data == RowTaxon(row, id.val, par.val)
                      a == NewAddr(t)
                      t1 == [t EXCEPT !.heap = MapPut(@, a, [data |-> data, children |-> EmptyMap]),
                                      !.ids = MapPut(@, id.val, a),
                                      !.names = IndexName(@, data.Name, id.val)]
                      linked == ReadLink(t1, a, data)
                  IN  IF linked.res # "ok" THEN linked
                      ELSE ReadRows(linked.t, rows, i + 1)

Read(rows) == ReadRows(NewTaxonomy, rows, 1)

\* the columns Read asks for
headerCols == <<"name", "author", "taxonKey", "rank", "status", "parent">>

\* fields[h] = i for every column i of the header, a later column replacing
\* an earlier one of the same name
HeaderFields(header) ==
    LET names == {ToLower(header[i]) : i \in DOMAIN header}
    IN  [h \in names |-> CHOOSE i \in DOMAIN header :
                            /\ ToLower(header[i]) = h
                            /\ \A j \in DOMAIN header : ToLower(header[j]) = h => j <= i]

\* the fields of a record that Read looks at, found through the header
NamedRow(fields, row) ==
    [name |-> row[fields["name"]], author |-> row[fields["author"]],
     taxonKey |-> row[fields["taxonkey"]], rank |-> row[fields["rank"]],
     status |-> row[fields["status"]], parent |-> row[fields["parent"]]]

\* Read on a table as the tsv.Reader gives it: the header record, then the
\* records up to the first one, if any, whose number of fields is not the
\* header's (ErrFieldCount)
ReadTable(header, rows) ==
    LET fields == HeaderFields(header)
        bad == {i \in DOMAIN rows : Len(rows[i]) # Len(header)}
        upto == IF bad = {} THEN Len(rows)
                ELSE (CHOOSE i \in bad : \A j \in bad : i <= j) - 1
    IN  IF header = <<>> THEN [res |-> "error", t |-> NewTaxonomy]
        ELSE IF \E c \in DOMAIN headerCols : ToLower(headerCols[c]) \notin DOMAIN fields
        THEN [res |-> "error", t |-> NewTaxonomy]
        ELSE LET r == Read([i \in 1..upto |-> NamedRow(fields, rows[i])])
             IN  IF r.res = "ok" /\ bad # {} THEN [res |-> "error", t |-> r.t] ELSE r

----------------------------------------------------------------------------
(* Write: the table of a taxonomy *)

\* the code points of the letters of the model's alphabet
CharCode(c) ==
    CASE c = " " -> 32
      [] c = "A" -> 65
      [] c = "B" -> 66
      [] c = "L" -> 76
      [] c = "a" -> 97
      [] c = "b" -> 98
      [] OTHER -> 0

\* cmp.Compare on integers
CompareInt(a, b) == IF a < b THEN -1 ELSE IF a > b THEN 1 ELSE 0

\* cmp.Compare on strings
RECURSIVE CompareStr(_, _)
CompareStr(a, b) ==
    IF a = <<>> THEN (IF b = <<>> THEN 0 ELSE -1)
    ELSE IF b = <<>> THEN 1
    ELSE IF CharCode(a[1]) # CharCode(b[1]) THEN CompareInt(CharCode(a[1]), CharCode(b[1]))
    ELSE CompareStr(Tail(a), Tail(b))

\* the comparison function Write and write give to slices.SortFunc
CompareTaxa(a, b) ==
    IF a.Rank # b.Rank
    THEN IF a.Rank = Unranked THEN -1
         ELSE IF b.Rank = Unranked THEN 1
         ELSE CompareInt(a.Rank, b.Rank)
    ELSE IF a.Status # b.Status /\ a.Status = "accepted" THEN -1
    ELSE IF a.Status # b.Status /\ b.Status = "accepted" THEN 1
    ELSE IF CompareStr(a.Name, b.Name) # 0 THEN CompareStr(a.Name, b.Name)
    ELSE CompareInt(a.ID, b.ID)

\* slices.SortFunc on the nodes of a map (the identifiers of one map differ,
\* so the comparison is a total order on them)
RECURSIVE SortTaxa(_, _)
SortTaxa(heap, S) ==
    IF S = {} THEN <<>>
    ELSE LET m == CHOOSE x \in S : \A y \in S : CompareTaxa(heap[x].data, heap[y].data) <= 0
         IN  <<m>> \o SortTaxa(heap, S \ {m})

\* strconv.FormatInt(n, 10) for n >= 0
RECURSIVE FormatInt(_)
FormatInt(n) == IF n < 10 THEN <<Digits[n + 1]>> ELSE FormatInt(n \div 10) \o <<Digits[(n % 10) + 1]>>

\* Rank.String returns the rank string of a rank.
RankString(r) == IF r >= Len(ranks) THEN ranks[Unranked + 1] ELSE ranks[r + 1]

\* the row write makes of a node
writeRow(d) ==
    [name |-> d.Name,
     author |-> d.Author,
     taxonKey |-> FormatInt(d.ID),
     rank |-> RankString(d.Rank),
     status |-> d.Status,
     parent |-> IF d.Parent # 0 THEN FormatInt(d.Parent) ELSE <<>>]

\* tax.write: the row of the node, then its children in sorted order, each
\* followed by its own
RECURSIVE write(_, _)
RECURSIVE writeAll(_, _)
write(t, a) == <<writeRow(t.heap[a].data)>> \o writeAll(t, SortTaxa(t.heap, Range(t.heap[a].children)))

writeAll(t, nodes) == IF nodes = <<>> THEN <<>> ELSE write(t, nodes[1]) \o writeAll(t, Tail(nodes))

\* Write writes a taxonomy into a TSV table: the rows after the header.  On
\* a node whose children lead back to it write recurses until the stack
\* overflows.
Write(t) ==
    IF \E a \in ReachFrom(t.heap, Range(t.root)) : Cyclic(t, a)
    THEN [res |-> "overflow", rows |-> <<>>]
    ELSE [res |-> "ok", rows |-> writeAll(t, SortTaxa(t.heap, Range(t.root)))]

\* a writer that escapes nothing
tsvEscapeNone(field) == field

\* tsv.Writer.Write on the characters of a field: tab, newline and backslash
\* are written as two characters
RECURSIVE tsvEscape(_)
tsvEscape(field) ==
    IF field = <<>> THEN <<>>
    ELSE (CASE field[1] = "\t" -> <<"\\", "t">>
            [] field[1] = "\n" -> <<"\\", "n">>
            [] field[1] = "\\" -> <<"\\", "\\">>
            [] OTHER -> <<field[1]>>) \o tsvEscape(Tail(field))

\* tsv.Reader.parseField on the characters of a field that delim ends: after
\* a backslash, t, n and backslash give the escaped character; another
\* character is unread and written, and then read again
RECURSIVE tsvUnescape(_, _)
tsvUnescape(text, delim) ==
    IF text = <<>> THEN <<>>
    ELSE IF text[1] # "\\" THEN <<text[1]>> \o tsvUnescape(Tail(text), delim)
    ELSE IF Len(text) = 1 THEN <<delim>>
    ELSE CASE text[2] = "t" -> <<"\t">> \o tsvUnescape(Tail(Tail(text)), delim)
           [] text[2] = "n" -> <<"\n">> \o tsvUnescape(Tail(Tail(text)), delim)
           [] text[2] = "\\" -> <<"\\">> \o tsvUnescape(Tail(Tail(text)), delim)
           [] OTHER -> <<text[2]>> \o tsvUnescape(Tail(text), delim)

\* the rows as the tsv.Writer writes them, and as the tsv.Reader reads them
\* back (the rank and status words hold none of the escaped characters)
WrittenRow(row) ==
    [row EXCEPT !.name = tsvEscape(@), !.author = tsvEscape(@),
                !.taxonKey = tsvEscape(@), !.parent = tsvEscape(@)]

ReadBackRow(row) ==
    [row EXCEPT !.name = tsvUnescape(@, "\t"), !.author = tsvUnescape(@, "\t"),
                !.taxonKey = tsvUnescape(@, "\t"), !.parent = tsvUnescape(@, "\r")]

\* Read applied to the output of Write
ReadWritten(t) ==
    LET rows == Write(t).rows
    IN  Read([i \in DOMAIN rows |-> ReadBackRow(WrittenRow(rows[i]))])

----------------------------------------------------------------------------
(* Package tsv: the text of a table *)

\* Writer.Write: the fields with a tab between them, then \r\n
RECURSIVE WriterFields(_, _)
WriterFields(record, i) ==
    IF i > Len(record) THEN <<"\r", "\n">>
    ELSE (IF i > 1 THEN <<"\t">> ELSE <<>>) \o tsvEscape(record[i]) \o WriterFields(record, i + 1)

WriterWrite(record) == WriterFields(record, 1)

\* Reader.readRune: the next character, \r\n read as \n; col counts the
\* characters of the line
readRune(text, rd) ==
    IF rd.pos > Len(text) THEN [err |-> TRUE, r |-> "", rd |-> rd]
    ELSE IF text[rd.pos] = "\r"
    THEN IF rd.pos + 1 > Len(text) THEN [err |-> TRUE, r |-> "", rd |-> [rd EXCEPT !.pos = @ + 1]]
         ELSE IF text[rd.pos + 1] = "\n"
         THEN [err |-> FALSE, r |-> "\n", rd |-> [rd EXCEPT !.pos = @ + 2]]
         ELSE [err |-> FALSE, r |-> "\r", rd |-> [rd EXCEPT !.pos = @ + 1, !.col = @ + 1]]
    ELSE [err |-> FALSE, r |-> text[rd.pos],
          rd |-> [rd EXCEPT !.pos = @ + 1, !.col = IF text[rd.pos] # "\n" THEN @ + 1 ELSE @]]

\* Reader.parseField: the characters up to a tab or a newline, field being
\* what was read of it so far; the end of the text ends a line that has
\* characters.  After a backslash, t, n and backslash give the escaped
\* character; any other character is unread, written, and read again.
RECURSIVE parseField(_, _, _)
parseField(text, rd, field) ==
    LET x == readRune(text, rd)
    IN  IF x.err
        THEN [err |-> ~(x.rd.col > 0), delim |-> "\n", field |-> field, rd |-> x.rd]
        ELSE IF x.r \in {"\t", "\n"}
        THEN [err |-> FALSE, delim |-> x.r, field |-> field, rd |-> x.rd]
        ELSE IF x.r = "\\"
        THEN IF x.rd.pos > Len(text)
             THEN [err |-> ~(x.rd.col > 0), delim |-> "\n", field |-> field, rd |-> x.rd]
             ELSE LET r1 == text[x.rd.pos]
                      next == [x.rd EXCEPT !.pos = @ + 1, !.col = @ + 1]
                  IN  CASE r1 = "t" -> parseField(text, next, Append(field, "\t"))
                        [] r1 = "n" -> parseField(text, next, Append(field, "\n"))
                        [] r1 = "\\" -> parseField(text, next, Append(field, "\\"))
                        [] OTHER -> parseField(text, x.rd, Append(field, r1))
        ELSE parseField(text, x.rd, Append(field, x.r))

\* the loop of parseRecord: fields up to the one a newline ends; a line
\* without characters gives no field
RECURSIVE parseFields(_, _, _)
parseFields(text, rd, fields) ==
    LET f == parseField(text, rd, <<>>)
    IN  IF f.err THEN [err |-> TRUE, fields |-> <<>>, rd |-> f.rd]
        ELSE IF f.delim = "\n"
        THEN [err |-> FALSE,
              fields |-> IF Len(fields) > 0 \/ Len(f.field) > 0 THEN Append(fields, f.field) ELSE fields,
              rd |-> f.rd]
        ELSE parseFields(text, f.rd, Append(fields, f.field))

\* Reader.parseRecord
parseRecord(text, rd) ==
    LET rd1 == [rd EXCEPT !.line = @ + 1, !.col = 0]
    IN  IF rd1.pos > Len(text) THEN [err |-> TRUE, fields |-> <<>>, rd |-> rd1]
        ELSE parseFields(text, rd1, <<>>)

\* Reader.Read: the next record that has fields; "EOF" at the end of the
\* text, "count" for a record whose number of fields is not the first's
RECURSIVE ReaderRead(_, _)
ReaderRead(text, rd) ==
    LET rec == parseRecord(text, rd)
    IN  IF rec.err THEN [res |-> "EOF", record |-> <<>>, rd |-> rec.rd]
        ELSE IF Len(rec.fields) = 0 THEN ReaderRead(text, rec.rd)
        ELSE LET rd2 == IF rec.rd.fieldsPerRecord = 0
                        THEN [rec.rd EXCEPT !.fieldsPerRecord = Len(rec.fields)]
                        ELSE rec.rd
             IN  [res |-> IF Len(rec.fields) # rd2.fieldsPerRecord THEN "count" ELSE "ok",
                  record |-> rec.fields, rd |-> rd2]

----------------------------------------------------------------------------
(* AcceptedAndRanked *)

\* a stop condition that forgets the rank
IsAcceptedOnly(data) == data.Status = "accepted"

\* the stop condition of AcceptedAndRanked's loop
IsAcceptedAndRanked(data) == data.Status = "accepted" /\ data.Rank # Unranked

----------------------------------------------------------------------------
(* The inputs of the model *)

\* gbif.Species, with the fields the taxonomy reads
MkSpecies(key, nub, refs, cname, spname, kind) ==
    [Key |-> key, NubKey |-> nub,
     AcceptedKey |-> refs[1], ParentKey |-> refs[2], BasionymKey |-> refs[3],
     CanonicalName |-> cname, Species |-> spname, Authorship |-> <<"L">>,
     TaxonomicStatus |-> kind[1], Rank |-> kind[2]]

NoSpecies == MkSpecies(0, 0, <<0, 0, 0>>, <<>>, <<>>, <<"", "">>)

\* status and rank as GBIF writes them
Kinds == {<<"ACCEPTED", "GENUS">>, <<"ACCEPTED", "SPECIES">>,
          <<"ACCEPTED", "VARIETY">>, <<"SYNONYM", "SPECIES">>}

\* accepted, parent and basionym references to the identifiers of T
RefShapes(T) ==
    {<<0, 0, 0>>}
        \cup {<<j, 0, 0>> : j \in T} \cup {<<0, j, 0>> : j \in T} \cup {<<0, 0, j>> : j \in T}
        \cup {r \in {<<a, p, 0>> : a \in T, p \in T} : r[1] # r[2]}

\* a canonical name and a name that Canon changes
NameAa == <<"A", "a">>
NameAA == <<"A", "A">>

\* (CanonicalName, Species): a canonical name, a name found only in the
\* Species field, no name
NamePairs == {<<NameAa, <<>>>>, <<<<>>, NameAA>>, <<<<>>, <<>>>>}

\* (Key, NubKey): a backbone record, a record without nub key, a record of
\* another checklist whose nub key is a different identifier
KeyPairs == {<<k, k>> : k \in Ids} \cup {<<k, 0>> : k \in 0..MaxId}

\* records: every combination of the given keys, references, names and kinds
Records(keys, refs, names, kinds) ==
    {MkSpecies(kp[1], kp[2], r, np[1], np[2], kind) :
        kp \in keys, r \in refs, np \in names, kind \in kinds}

\* the fields of a table row
KeyFields == {<<"0">>, <<"x">>} \cup {<<Digits[k + 1]>> : k \in Ids}
KeyFieldsNoZero == KeyFields \ {<<"0">>}
ParentFields == {<<>>, <<"x">>} \cup {<<Digits[k + 1]>> : k \in Ids}
RowKinds == {<<"accepted", "genus">>, <<"Accepted", "unranked">>, <<"synonym", "species">>}

Rows(names, keys, kinds) ==
    {[name |-> n, author |-> <<"L">>, taxonKey |-> k, rank |-> kind[2], status |-> kind[1], parent |-> p] :
        n \in names, k \in keys, kind \in kinds, p \in ParentFields}

Tables(rows) == UNION {[1..n -> rows] : n \in 0..MaxRows}

\* the inputs of SpecRank: every status and rank, one name
RankRecords ==
    Records(KeyPairs, {<<0, 0, 0>>} \cup {<<0, j, 0>> : j \in Ids}, {<<NameAa, <<>>>>},
            {<<"ACCEPTED", "GENUS">>, <<"ACCEPTED", "VARIETY">>, <<"SYNONYM", "SPECIES">>})
RankTables == Tables(Rows({NameAa}, KeyFieldsNoZero, RowKinds))

\* the inputs of SpecNames: every name, one status and rank
NameRecords == Records(KeyPairs, RefShapes(Ids), NamePairs, {<<"ACCEPTED", "GENUS">>})
NameTables == Tables(Rows({<<>>, NameAA}, KeyFields, {<<"accepted", "genus">>}))

\* the records of SpecTSV: fields of letters, tabs, newlines and backslashes;
\* the records of a list have the same number of fields, and none is a
\* single empty field
TsvLists ==
    LET TsvChars == {"t", "\t", "\n", "\\"}
        TsvFields(n) == UNION {[1..k -> TsvChars] : k \in 0..n}
        TsvRecords(k) ==
            IF k = 1 THEN {<<f>> : f \in TsvFields(MaxFieldLen) \ {<<>>}}
            ELSE [1..k -> TsvFields(1)]
    IN  UNION {[1..n -> TsvRecords(k)] : n \in 0..MaxTsvRecs, k \in 1..2}

\* the record the service holds under identifier k: its Key is k; its NubKey
\* is k (a backbone record), 0 (none) or another identifier
NubOf(k, nub) ==
    CASE nub = "self" -> k
      [] nub = "other" -> (k % MaxId) + 1
      [] OTHER -> 0

RemoteKeyNames == {<<"self", NameAa>>, <<"none", NameAa>>, <<"other", NameAa>>, <<"self", <<>>>>}

\* no reference, an accepted or a parent reference to the other identifiers,
\* a basionym reference to the record itself
RemoteRefs(k) ==
    {<<0, 0, 0>>, <<0, 0, k>>} \cup {<<j, 0, 0>> : j \in Ids \ {k}} \cup {<<0, j, 0>> : j \in Ids \ {k}}

RemoteRecords(k) ==
    {MkSpecies(k, NubOf(k, kn[1]), refs, kn[2], <<>>, kind) :
        kn \in RemoteKeyNames, refs \in RemoteRefs(k), kind \in Kinds}

\* the services: one record under each identifier of 1..k
RECURSIVE Worlds(_)
Worlds(k) ==
    IF k = 0 THEN {EmptyMap}
    ELSE {MapPut(w, k, r) : w \in Worlds(k - 1), r \in RemoteRecords(k)}

\* the rank ceilings a caller passes
MaxRanks == {Genus, Species}

\* the names a caller passes: a name and a blank string
QueryNames == {NameAa, <<" ">>}

\* the result lists of a name search: identifiers of the service, each once
CandidateLists ==
    {c \in UNION {[1..n -> Ids] : n \in 0..MaxCand} : \A i, j \in DOMAIN c : i # j => c[i] # c[j]}

----------------------------------------------------------------------------
(* The state machine *)

NoCall ==
    [op |-> "none", id |-> 0, maxRank |-> Unranked, cur |-> 0, ls |-> <<>>, seen |-> {},
     stop |-> FALSE, hasSp |-> FALSE, sp |-> NoSpecies, cands |-> <<>>, repeat |-> FALSE,
     pre |-> NewTaxonomy]

NoLast ==
    [op |-> "none", id |-> 0, maxRank |-> Unranked, res |-> "none", out |-> EmptyTaxon,
     errIDs |-> <<>>, nfetch |-> 0, ls |-> <<>>, hasSp |-> FALSE, sp |-> NoSpecies,
     cands |-> <<>>, repeat |-> FALSE, gone |-> {}, pre |-> NewTaxonomy,
     fetchErr |-> FALSE, cur |-> 0, rank |-> Unranked]

\* package gbif before any call: once not run, reqChan nil, no goroutine
Procs == 1..NCallers

IdleProc == [pc |-> "idle", box |-> "none", got |-> "none", waited |-> FALSE, n |-> 0]

NoRequests ==
    /\ once = FALSE
    /\ reqChan = 0
    /\ chans = <<>>
    /\ workers = <<>>
    /\ procs = [c \in Procs |-> IdleProc]
    /\ opens = 0
    /\ pending = {}

\* no error value
NoErr == [kind |-> "nil", n |-> 0]

\* no SpeciesID or taxonList call made yet
NoFetch ==
    [op |-> "none", stage |-> "idle", id |-> <<>>, recs |-> <<>>, limit |-> 1,
     r |-> 0, err |-> NoErr, off |-> 0, ls |-> <<>>,
     res |-> "none", resErr |-> NoErr, made |-> 0, outs |-> <<>>, log |-> <<>>]

Fits(t) == Cardinality(DOMAIN t.heap) <= MaxNodes

InitStore ==
    /\ NoRequests
    /\ fetch = NoFetch
    /\ tx = NewTaxonomy
    /\ remote = EmptyMap
    /\ pc = "idle"
    /\ call = NoCall
    /\ last = NoLast

\* taxonomy.Read on a table: the program starts from the taxonomy it returns
\* (nil and an error for a malformed row; a nil pointer panic ends the program)
Load(tables) ==
    /\ pc = "idle"
    /\ UNCHANGED <<pipeVars, fetch>>
    /\ last.op = "none"
    /\ \E rows \in tables :
        LET r == Read(rows)
        IN  /\ Fits(r.t)
            /\ tx' = IF r.res = "ok" THEN Collect(r.t) ELSE tx
            /\ pc' = IF r.res = "panic" THEN "crashed" ELSE "idle"
            /\ last' = [NoLast EXCEPT !.op = "Read", !.res = r.res]
    /\ UNCHANGED <<remote, call>>

\* tx.AddSpecies(sp)
AddSpeciesCall(records) ==
    /\ pc = "idle"
    /\ UNCHANGED <<pipeVars, fetch>>
    /\ \E sp \in records :
        /\ Fits(AddSpecies(tx, sp))
        /\ tx' = AddSpecies(tx, sp)
        /\ last' = [NoLast EXCEPT !.op = "AddSpecies", !.res = "ok"]
    /\ UNCHANGED <<remote, pc, call>>

\* tx.Del(id); on a node whose children lead back to it delTaxon recurses
\* until the stack overflows
DelCall ==
    /\ pc = "idle"
    /\ UNCHANGED <<pipeVars, fetch>>
    /\ \E id \in 0..MaxId :
        IF id \in DOMAIN tx.ids /\ Cyclic(tx, tx.ids[id])
        THEN /\ pc' = "crashed"
             /\ last' = [NoLast EXCEPT !.op = "Del", !.res = "overflow", !.id = id]
             /\ tx' = tx
        ELSE /\ pc' = pc
             /\ last' = [NoLast EXCEPT !.op = "Del", !.res = "ok", !.id = id,
                                       !.gone = Children(tx, id) \cup {id},
                                       !.pre = tx]
             /\ tx' = Del(tx, id)
    /\ UNCHANGED <<remote, call>>

\* tx.AcceptedAndRanked(id): entering the loop
AcceptedAndRankedCall ==
    /\ pc = "idle"
    /\ UNCHANGED <<pipeVars, fetch>>
    /\ \E id \in 0..MaxId :
        call' = [NoCall EXCEPT !.op = "AcceptedAndRanked", !.id = id, !.cur = id]
    /\ pc' = "ar"
    /\ last' = NoLast
    /\ UNCHANGED <<tx, remote>>

\* one iteration of AcceptedAndRanked's loop
AcceptedAndRankedStep ==
    /\ pc = "ar"
    /\ UNCHANGED <<pipeVars, fetch>>
    /\ IF call.cur \notin DOMAIN tx.ids
       THEN /\ pc' = "idle"
            /\ last' = [NoLast EXCEPT !.op = "AcceptedAndRanked", !.res = "ok", !.id = call.id,
                                      !.out = EmptyTaxon]
            /\ call' = NoCall
       ELSE IF IsAcceptedAndRanked(Taxon(tx, call.cur))
       THEN /\ pc' = "idle"
            /\ last' = [NoLast EXCEPT !.op = "AcceptedAndRanked", !.res = "ok", !.id = call.id,
                                      !.out = Taxon(tx, call.cur)]
            /\ call' = NoCall
       ELSE /\ pc' = "ar"
            /\ call' = [call EXCEPT !.cur = Taxon(tx, call.cur).Parent, !.seen = @ \cup {call.cur}]
            /\ last' = last
    /\ UNCHANGED <<tx, remote>>

----------------------------------------------------------------------------
(* AddFromGBIF and AddNameFromGBIF *)

\* a stop condition that forgets the rank ceiling
StopsWalkAnyRank(sp, maxRank) ==
    /\ ToLower(sp.TaxonomicStatus) = "accepted"
    /\ GetRank(sp.Rank) # Unranked

\* the walk stops at a record that is accepted, ranked and within the ceiling
StopsWalk(sp, maxRank) ==
    /\ ToLower(sp.TaxonomicStatus) = "accepted"
    /\ GetRank(sp.Rank) # Unranked
    /\ GetRank(sp.Rank) <= maxRank

\* a loop that does not look the identifier up in tx.ids
WalkGoesOnUnchecked(t, c) == ~c.stop /\ c.cur # 0

\* the loop of AddFromGBIF goes round again: a non-zero identifier that is
\* not a key of tx.ids, after a record that did not stop the walk
WalkGoesOn(t, c) == ~c.stop /\ c.cur # 0 /\ c.cur \notin DOMAIN t.ids

\* for _, sp := range ls { tx.AddSpecies(sp) }
RECURSIVE AddAll(_, _)
AddAll(t, ls) == IF ls = <<>> THEN t ELSE AddAll(AddSpecies(t, ls[1]), Tail(ls))

\* what the call leaves when its walk is over: the fetched records are added,
\* and after them the record AddNameFromGBIF holds
WalkResult(t, c) ==
    LET t1 == AddAll(t, c.ls)
    IN  IF c.hasSp THEN AddSpecies(t1, c.sp) ELSE t1

InitGBIF ==
    /\ NoRequests
    /\ fetch = NoFetch
    /\ tx = NewTaxonomy
    /\ remote \in Worlds(MaxId)
    /\ pc = "idle"
    /\ call = NoCall
    /\ last = NoLast

\* tx.AddFromGBIF(id, maxRank): entering the loop
AddFromGBIFCall ==
    /\ pc = "idle"
    /\ UNCHANGED <<pipeVars, fetch>>
    /\ \E id \in 0..MaxId, maxRank \in MaxRanks :
        call' = [NoCall EXCEPT !.op = "AddFromGBIF", !.id = id, !.maxRank = maxRank, !.cur = id,
                               !.pre = tx,
                               !.repeat = /\ last.op = "AddFromGBIF"
                                          /\ last.res = "nil"
                                          /\ last.id = id
                                          /\ last.maxRank = maxRank]
    /\ pc' = "walk"
    /\ last' = NoLast
    /\ UNCHANGED <<tx, remote>>

\* one iteration of the loop in which gbif.SpeciesID answers
WalkFetch ==
    /\ pc = "walk"
    /\ UNCHANGED <<pipeVars, fetch>>
    /\ WalkGoesOn(tx, call)
    /\ Len(call.ls) < MaxFetch
    /\ LET sp == remote[call.cur]
       IN  call' = [call EXCEPT !.ls = <<sp>> \o @,
                                !.seen = @ \cup {call.cur},
                                !.stop = StopsWalk(sp, call.maxRank),
                                !.cur = IF StopsWalk(sp, call.maxRank) THEN @ ELSE PreferredKey(sp)]
    /\ UNCHANGED <<tx, remote, pc, last>>

\* the call is over: its arguments, its result, the fetches it issued, whether
\* one of its requests failed, and the store it started from
Finished(c, res, errIDs, nfetch, fetchErr) ==
    [NoLast EXCEPT !.op = c.op, !.id = c.id, !.maxRank = c.maxRank, !.res = res,
                   !.errIDs = errIDs, !.nfetch = nfetch, !.ls = c.ls, !.hasSp = c.hasSp,
                   !.sp = c.sp, !.cands = c.cands, !.repeat = c.repeat, !.pre = c.pre,
                   !.fetchErr = fetchErr, !.cur = c.cur]

\* a failure that first adds the records fetched so far
FetchFailedCommits(t, c) == [res |-> "error", t |-> AddAll(t, c.ls)]

\* sp, err := gbif.SpeciesID(...); if err != nil { return err }: what the
\* call returns and the store it leaves
FetchFailed(t, c) == [res |-> "error", t |-> t]

\* one iteration of the loop in which gbif.SpeciesID fails: return err
WalkFetchFails ==
    /\ pc = "walk"
    /\ UNCHANGED <<pipeVars, fetch>>
    /\ WalkGoesOn(tx, call)
    /\ Len(call.ls) < MaxFetch
    /\ pc' = "idle"
    /\ tx' = FetchFailed(tx, call).t
    /\ last' = Finished(call, FetchFailed(tx, call).res, <<>>, Len(call.ls) + 1, TRUE)
    /\ call' = NoCall
    /\ UNCHANGED remote

\* the loop ends: the records are added and the call returns nil
WalkEnds ==
    /\ pc = "walk"
    /\ UNCHANGED <<pipeVars, fetch>>
    /\ ~WalkGoesOn(tx, call)
    /\ Fits(WalkResult(tx, call))
    /\ tx' = WalkResult(tx, call)
    /\ pc' = "idle"
    /\ last' = Finished(call, "nil", <<>>, Len(call.ls), FALSE)
    /\ call' = NoCall
    /\ UNCHANGED remote

\* gbif.TaxonName: of the records found, those with Key = NubKey
TaxonName(found) == SelectSeq(found, LAMBDA sp : sp.Key = sp.NubKey)

\* a search that keeps the first accepted record when there are several
FirstAccepted(ls) ==
    LET acc == {i \in DOMAIN ls : ls[i].TaxonomicStatus = "ACCEPTED"}
    IN  IF acc # {} THEN CHOOSE i \in acc : \A j \in acc : i <= j ELSE 0

\* a search that takes the head of the list once one record is accepted
FirstCandidate(ls) ==
    LET acc == {i \in DOMAIN ls : ls[i].TaxonomicStatus = "ACCEPTED"}
    IN  IF Cardinality(acc) = 1 THEN 1 ELSE 0

\* the index v of the single record with status ACCEPTED, 0 if there is none
\* or more than one (the code's -1)
SingleAccepted(ls) ==
    LET acc == {i \in DOMAIN ls : ls[i].TaxonomicStatus = "ACCEPTED"}
    IN  IF Cardinality(acc) = 1 THEN CHOOSE i \in acc : TRUE ELSE 0

\* ids = append(ids, sp.NubKey) for every record of ls
AmbiguousIDs(ls) == [i \in DOMAIN ls |-> ls[i].NubKey]

\* tx.AddNameFromGBIF(name, maxRank), up to its return or to its call of
\* AddFromGBIF; the name search fails, or answers with the records of cands
AddNameFromGBIFCall ==
    /\ pc = "idle"
    /\ UNCHANGED <<pipeVars, fetch>>
    /\ \E name \in QueryNames, maxRank \in MaxRanks, cands \in CandidateLists, fails \in BOOLEAN :
        LET c0 == [NoCall EXCEPT !.op = "AddNameFromGBIF", !.maxRank = maxRank, !.pre = tx]
            ls == TaxonName([i \in DOMAIN cands |-> remote[cands[i]]])
            c1 == [c0 EXCEPT !.cands = ls]
            v == IF Len(ls) > 1 THEN SingleAccepted(ls) ELSE 1
            sp == ls[v]
            c2 == [c1 EXCEPT !.hasSp = TRUE, !.sp = sp]
        IN  /\ UNCHANGED remote
            /\ IF Canon(name) = <<>>
                 THEN /\ ~fails /\ cands = <<>>
                      /\ pc' = "idle" /\ tx' = tx /\ call' = NoCall
                      /\ last' = Finished(c0, "nil", <<>>, 0, FALSE)
                 ELSE IF fails
                 THEN /\ cands = <<>>
                      /\ pc' = "idle" /\ tx' = tx /\ call' = NoCall
                      /\ last' = Finished(c0, "error", <<>>, 0, TRUE)
                 ELSE IF Len(ls) = 0
                 THEN /\ pc' = "idle" /\ tx' = tx /\ call' = NoCall
                      /\ last' = Finished(c1, "nil", <<>>, 0, FALSE)
                 ELSE IF v = 0
                 THEN /\ pc' = "idle" /\ tx' = tx /\ call' = NoCall
                      /\ last' = Finished(c1, "ambiguous", AmbiguousIDs(ls), 0, FALSE)
                 ELSE IF StopsWalk(sp, maxRank)
                 THEN /\ Fits(AddSpecies(tx, sp))
                      /\ pc' = "idle" /\ tx' = AddSpecies(tx, sp) /\ call' = NoCall
                      /\ last' = Finished(c2, "nil", <<>>, 0, FALSE)
                 ELSE /\ pc' = "walk" /\ tx' = tx
                      /\ call' = [c2 EXCEPT !.cur = PreferredKey(sp)]
                      /\ last' = NoLast

NextGBIF ==
    \/ AddFromGBIFCall
    \/ WalkFetch
    \/ WalkFetchFails
    \/ WalkEnds
    \/ AddNameFromGBIFCall

SpecGBIF == InitGBIF /\ [][NextGBIF]_vars

NextRank ==
    \/ Load(RankTables)
    \/ AddSpeciesCall(RankRecords)
    \/ DelCall
    \/ AcceptedAndRankedCall
    \/ AcceptedAndRankedStep

SpecRank == InitStore /\ [][NextRank]_vars

NextNames ==
    \/ Load(NameTables)
    \/ AddSpeciesCall(NameRecords)
    \/ DelCall

SpecNames == InitStore /\ [][NextNames]_vars

\* the program with a table at hand: taxonomy.Read on it, then MinRank
InitTable ==
    /\ NoRequests
    /\ fetch = NoFetch
    /\ tx = NewTaxonomy
    /\ remote = EmptyMap
    /\ pc = "idle"
    /\ last = NoLast
    /\ LET TableHeaders ==
               {headerCols,
                <<"parent", "Name", "author", "taxonKey", "rank", "status">>,
                <<"name", "name", "author", "taxonKey", "rank", "status", "parent">>}
                   \cup {SelectSeq(headerCols, LAMBDA h : h # headerCols[c]) : c \in DOMAIN headerCols}
           TableKeyFields == {<<"x">>, <<"-", "1">>} \cup {<<Digits[k + 1]>> : k \in Ids}
           TableParentFields == {<<>>, <<"-", "1">>} \cup {<<Digits[k + 1]>> : k \in Ids}
           TableRows ==
               {[name |-> n, author |-> <<"L">>, taxonKey |-> k, rank |-> "genus",
                 status |-> "accepted", parent |-> p] :
                   n \in {<<>>, NameAa}, k \in TableKeyFields, p \in TableParentFields}
           LaidOut(header, row) ==
               [i \in DOMAIN header |->
                   CASE ToLower(header[i]) = "name" -> row.name
                     [] ToLower(header[i]) = "author" -> row.author
                     [] ToLower(header[i]) = "taxonkey" -> row.taxonKey
                     [] ToLower(header[i]) = "rank" -> row.rank
                     [] ToLower(header[i]) = "status" -> row.status
                     [] OTHER -> row.parent]
       IN  \E header \in TableHeaders, rows \in Tables(TableRows) :
               call = [op |-> "Read", header |-> header,
                       named |-> rows,
                       rows |-> [i \in DOMAIN rows |-> LaidOut(header, rows[i])]]

ReadCall ==
    /\ pc = "idle"
    /\ UNCHANGED <<pipeVars, fetch>>
    /\ last.op = "none"
    /\ LET r == ReadTable(call.header, call.rows)
       IN  /\ tx' = IF r.res = "ok" THEN Collect(r.t) ELSE tx
           /\ pc' = IF r.res = "panic" THEN "crashed" ELSE "idle"
           /\ last' = [NoLast EXCEPT !.op = "Read", !.res = r.res]
    /\ UNCHANGED <<remote, call>>

\* tx.MinRank() on the taxonomy read
MinRankCall ==
    /\ pc = "idle"
    /\ UNCHANGED <<pipeVars, fetch>>
    /\ last.op = "Read"
    /\ last.res = "ok"
    /\ last' = IF MinRank(tx) = -1
               THEN [NoLast EXCEPT !.op = "MinRank", !.res = "overflow"]
               ELSE [NoLast EXCEPT !.op = "MinRank", !.res = "ok", !.rank = MinRank(tx)]
    /\ pc' = IF MinRank(tx) = -1 THEN "crashed" ELSE "idle"
    /\ UNCHANGED <<tx, remote, call>>

NextTable ==
    \/ ReadCall
    \/ MinRankCall

SpecTable == InitTable /\ [][NextTable]_vars

\* a list of records written with a tsv.Writer, the text then read with a
\* tsv.Reader until it returns an error
InitTSV ==
    /\ NoRequests
    /\ fetch = NoFetch
    /\ tx = NewTaxonomy
    /\ remote = EmptyMap
    /\ pc = "idle"
    /\ last = NoLast
    /\ \E records \in TsvLists :
        call = [op |-> "tsv", records |-> records, written |-> 0, text |-> <<>>,
                rd |-> [pos |-> 1, line |-> 0, col |-> 0, fieldsPerRecord |-> 0],
                got |-> <<>>, res |-> "none"]

\* w.Write(record)
TsvWrite ==
    /\ call.op = "tsv"
    /\ UNCHANGED <<pipeVars, fetch>>
    /\ call.written < Len(call.records)
    /\ call' = [call EXCEPT !.written = @ + 1,
                            !.text = @ \o WriterWrite(call.records[call.written + 1])]
    /\ UNCHANGED <<tx, remote, pc, last>>

\* r.Read() on the text, once all records are written and flushed
TsvRead ==
    /\ call.op = "tsv"
    /\ UNCHANGED <<pipeVars, fetch>>
    /\ call.written = Len(call.records)
    /\ call.res = "none"
    /\ LET x == ReaderRead(call.text, call.rd)
       IN  call' = IF x.res = "ok"
                   THEN [call EXCEPT !.rd = x.rd, !.got = Append(@, x.record)]
                   ELSE [call EXCEPT !.rd = x.rd, !.res = x.res]
    /\ UNCHANGED <<tx, remote, pc, last>>

NextTSV ==
    \/ TsvWrite
    \/ TsvRead

SpecTSV == InitTSV /\ [][NextTSV]_vars

----------------------------------------------------------------------------
(* Package gbif: the request queue and the goroutine that serves it *)

\* sync.Once: Do runs its function when none has run
RunsInitAlways(done) == TRUE

RunsInit(done) == ~done

\* a send on the buffered channel cReqs goes through when the buffer has room
HasRoomAlways(buf) == TRUE

HasRoom(buf) == Len(buf) < Buffer

\* r.ans and r.err have no buffer: a send on them goes through when the
\* caller p is receiving in its select
ReceiverAny(p) == TRUE

ReceiverReady(p) == p.pc = "select"

\* a nil pointer dereference in a caller ends the program
Panicked == \E c \in Procs : procs[c].pc = "panic"

NewChan == [buf |-> <<>>, sendq |-> <<>>]

\* a receive that takes the newest request
DequeueNewest(buf) == [r |-> buf[Len(buf)], rest |-> SubSeq(buf, 1, Len(buf) - 1)]

\* a receive on the channel takes the oldest request of the buffer
Dequeue(buf) == [r |-> Head(buf), rest |-> Tail(buf)]

NewWorker(rc) == [rc |-> rc, pc |-> "recv", r |-> 0, n |-> 0, slept |-> FALSE, paced |-> TRUE]

\* gbif.Open() by caller c: once.Do(initReqs); initReqs makes the channel
\* and starts the goroutine
Open(c) ==
    /\ ~Panicked
    /\ procs[c].pc = "idle"
    /\ opens < MaxOpens
    /\ opens' = opens + 1
    /\ IF RunsInit(once)
       THEN /\ once' = TRUE
            /\ chans' = Append(chans, NewChan)
            /\ reqChan' = Len(chans) + 1
            /\ workers' = Append(workers, NewWorker(Len(chans) + 1))
       ELSE UNCHANGED <<once, chans, reqChan, workers>>
    /\ UNCHANGED <<storeVars, procs, pending, fetch>>

\* newRequest by caller c: reqChan.cReqs <- r. With reqChan nil the
\* dereference panics; with room in the buffer the request is queued and
\* newRequest returns; otherwise the caller waits in the channel's send queue
newRequest(c) ==
    /\ ~Panicked
    /\ procs[c].pc = "idle"
    /\ IF reqChan = 0
       THEN /\ procs' = [procs EXCEPT ![c].pc = "panic"]
            /\ UNCHANGED chans
       ELSE IF HasRoom(chans[reqChan].buf)
       THEN /\ chans' = [chans EXCEPT ![reqChan].buf = Append(@, c)]
            /\ procs' = [procs EXCEPT ![c] = [IdleProc EXCEPT !.pc = "submitted"]]
       ELSE /\ chans' = [chans EXCEPT ![reqChan].sendq = Append(@, c)]
            /\ procs' = [procs EXCEPT ![c] = [IdleProc EXCEPT !.pc = "blocked", !.waited = TRUE]]
    /\ UNCHANGED <<storeVars, once, reqChan, workers, opens, pending, fetch>>

\* the caller, back from newRequest, reaches its select on r.err and r.ans
\* (and takes the outcome at once if one is there)
Select(c) ==
    /\ ~Panicked
    /\ procs[c].pc = "submitted"
    /\ IF procs[c].box = "none"
       THEN /\ procs' = [procs EXCEPT ![c].pc = "select"]
            /\ UNCHANGED pending
       ELSE /\ procs' = [procs EXCEPT ![c].pc = "idle", ![c].got = procs[c].box,
                                       ![c].box = "none", ![c].n = @ + 1]
            /\ pending' = pending \ {c}
    /\ UNCHANGED <<storeVars, once, reqChan, chans, workers, opens, fetch>>

\* reqs(): for r := range rc.cReqs takes the oldest request of the buffer;
\* the first sender waiting on the full channel, if any, is let in; then
\* http.Get(r.req) starts
Receive(w) ==
    /\ ~Panicked
    /\ workers[w].pc = "recv"
    /\ chans[workers[w].rc].buf # <<>>
    /\ LET ch == chans[workers[w].rc]
           r == Dequeue(ch.buf).r
           rest == Dequeue(ch.buf).rest
       IN  /\ workers' = [workers EXCEPT ![w].pc = "get", ![w].r = r,
                              ![w].n = IF @ < 2 THEN @ + 1 ELSE @,
                              ![w].paced = (workers[w].n = 0 \/ workers[w].slept),
                              ![w].slept = FALSE]
           /\ pending' = pending \cup {r}
           /\ IF ch.sendq = <<>>
              THEN /\ chans' = [chans EXCEPT ![workers[w].rc].buf = rest]
                   /\ UNCHANGED procs
              ELSE /\ chans' = [chans EXCEPT ![workers[w].rc] =
                                   [buf |-> Append(rest, Head(ch.sendq)),
                                    sendq |-> Tail(ch.sendq)]]
                   /\ procs' = [procs EXCEPT ![Head(ch.sendq)].pc = "submitted"]
    /\ UNCHANGED <<storeVars, once, reqChan, opens, fetch>>

\* http.Get returns a response or an error; the goroutine goes to send it
GetReturns(w) ==
    /\ ~Panicked
    /\ workers[w].pc = "get"
    /\ \E out \in {"err", "ans"} : workers' = [workers EXCEPT ![w].pc = out]
    /\ UNCHANGED <<storeVars, once, reqChan, chans, procs, opens, pending, fetch>>

\* r.err <- err; continue   or   r.ans <- answer, followed by the sleep
Hand(w) ==
    /\ ~Panicked
    /\ workers[w].pc \in {"err", "ans"}
    /\ LET c == workers[w].r
       IN  /\ ReceiverReady(procs[c])
           /\ IF procs[c].pc = "select"
              THEN /\ procs' = [procs EXCEPT ![c].pc = "idle", ![c].got = workers[w].pc, ![c].n = @ + 1]
                   /\ pending' = pending \ {c}
              ELSE /\ procs' = [procs EXCEPT ![c].box = workers[w].pc]
                   /\ UNCHANGED pending
    /\ workers' = [workers EXCEPT ![w].pc = IF @ = "err" THEN "recv" ELSE "sleep", ![w].r = 0]
    /\ UNCHANGED <<storeVars, once, reqChan, chans, opens, fetch>>

\* time.Sleep(Wait) ends
Sleep(w) ==
    /\ ~Panicked
    /\ workers[w].pc = "sleep"
    /\ workers' = [workers EXCEPT ![w].pc = "recv", ![w].slept = TRUE]
    /\ UNCHANGED <<storeVars, once, reqChan, chans, procs, opens, pending, fetch>>

InitPipe ==
    /\ tx = NewTaxonomy
    /\ remote = EmptyMap
    /\ pc = "idle"
    /\ call = NoCall
    /\ last = NoLast
    /\ NoRequests
    /\ fetch = NoFetch

NextPipe ==
    \/ \E c \in Procs : Open(c)
    \/ \E c \in Procs : newRequest(c)
    \/ \E c \in Procs : Select(c)
    \/ \E w \in DOMAIN workers : Receive(w)
    \/ \E w \in DOMAIN workers : GetReturns(w)
    \/ \E w \in DOMAIN workers : Hand(w)
    \/ \E w \in DOMAIN workers : Sleep(w)

SpecPipe == InitPipe /\ [][NextPipe]_vars

\* the same with the scheduling of Go: a goroutine that can run does run,
\* http.Get returns (the client has a Timeout) and time.Sleep ends
FairPipe ==
    /\ \A c \in Procs : WF_vars(Select(c))
    /\ \A w \in 1..MaxOpens :
        /\ WF_vars(w \in DOMAIN workers /\ Receive(w))
        /\ WF_vars(w \in DOMAIN workers /\ GetReturns(w))
        /\ WF_vars(w \in DOMAIN workers /\ Hand(w))
        /\ WF_vars(w \in DOMAIN workers /\ Sleep(w))

SpecPipeFair == InitPipe /\ [][NextPipe]_vars /\ FairPipe

----------------------------------------------------------------------------
(* Package gbif: SpeciesID and taxonList, the attempts and the pages *)

\* the loops go on while r < Retry
MoreAttemptsInclusive(r) == r <= Retry

MoreAttempts(r) == r < Retry

\* taxonList keeps the records of the backbone
KeepsAny(sp) == TRUE

KeepsRecord(sp) == sp.Key = sp.NubKey

\* the results of a decoded page appended to ls
AppendResults(ls, results) == ls \o SelectSeq(results, KeepsRecord)

\* the lists the service can hold: record i has key i and is of the backbone
\* (NubKey = Key) or not
ListRecord(i, nub) == [Key |-> i, NubKey |-> nub]

ServiceLists ==
    UNION {{[i \in 1..n |-> ListRecord(i, IF i \in B THEN i ELSE 0)] : B \in SUBSET (1..n)} : n \in 0..MaxRecs}

\* the page of the service at offset off: spAnswer
Page(recs, limit, off) ==
    LET to == IF off + limit < Len(recs) THEN off + limit ELSE Len(recs)
    IN  [Offset |-> off, Limit |-> limit,
         EndOfRecords |-> (off + limit >= Len(recs)),
         Results |-> SubSeq(recs, off + 1, to)]

\* what a request ends in: a transport error, a response that does not
\* decode, a response that decodes
Outcomes == {"transport", "decode", "ok"}

FetchIDs == {<<>>, <<" ">>, <<"1">>}

\* the error of attempt number n
AttemptErr(out, n) == [kind |-> out, n |-> n]

\* the end of both functions when the attempts are used up: "no answer"
\* when err is nil, else the last error
GivesUp(f) ==
    [f EXCEPT !.stage = "done",
              !.ls = <<>>,
              !.res = IF f.err = NoErr THEN "noanswer" ELSE "error",
              !.resErr = f.err]

\* SpeciesID(id): the checks before the loop
SpeciesIDCall ==
    /\ fetch.stage = "idle"
    /\ \E id \in FetchIDs :
        LET f == [NoFetch EXCEPT !.op = "SpeciesID", !.id = id]
        IN  fetch' = IF TrimSpace(id) = <<>>
                     THEN [f EXCEPT !.stage = "done", !.res = "empty"]
                     ELSE [f EXCEPT !.stage = "loop"]
    /\ UNCHANGED <<storeVars, pipeVars>>

\* one turn of the loop of SpeciesID: newRequest and the select
SpeciesIDAttempt ==
    /\ fetch.op = "SpeciesID"
    /\ fetch.stage = "loop"
    /\ MoreAttempts(fetch.r)
    /\ \E out \in Outcomes :
        LET f == [fetch EXCEPT !.made = @ + 1, !.outs = Append(@, out),
                               !.log = Append(@, [off |-> 0, ok |-> (out = "ok")])]
        IN  fetch' = IF out = "ok"
                     THEN [f EXCEPT !.stage = "done", !.res = "ok", !.err = NoErr]
                     ELSE [f EXCEPT !.r = @ + 1, !.err = AttemptErr(out, f.made)]
    /\ UNCHANGED <<storeVars, pipeVars>>

\* SpeciesID after the loop
SpeciesIDFails ==
    /\ fetch.op = "SpeciesID"
    /\ fetch.stage = "loop"
    /\ ~MoreAttempts(fetch.r)
    /\ fetch' = GivesUp(fetch)
    /\ UNCHANGED <<storeVars, pipeVars>>

\* TaxonName, Children, Synonym: taxonList on a list of the service
taxonListCall ==
    /\ fetch.stage = "idle"
    /\ \E op \in {"TaxonName", "Children", "Synonym"}, recs \in ServiceLists, limit \in 1..MaxLimit :
        fetch' = [NoFetch EXCEPT !.op = op, !.recs = recs, !.limit = limit, !.stage = "loop"]
    /\ UNCHANGED <<storeVars, pipeVars>>

\* one turn of the inner loop of taxonList; a decoded page ends the inner
\* loop, and the outer loop too when it is the last page
taxonListAttempt ==
    /\ fetch.op \in {"TaxonName", "Children", "Synonym"}
    /\ fetch.stage = "loop"
    /\ MoreAttempts(fetch.r)
    /\ \E out \in Outcomes :
        LET f == [fetch EXCEPT !.made = @ + 1, !.outs = Append(@, out),
                               !.log = Append(@, [off |-> fetch.off, ok |-> (out = "ok")])]
            resp == Page(fetch.recs, fetch.limit, fetch.off)
            got == [f EXCEPT !.ls = AppendResults(@, resp.Results), !.err = NoErr]
        IN  fetch' = IF out # "ok"
                     THEN [f EXCEPT !.r = @ + 1, !.err = AttemptErr(out, f.made)]
                     ELSE IF resp.EndOfRecords
                     THEN [got EXCEPT !.stage = "done", !.res = "ok"]
                     ELSE [got EXCEPT !.off = @ + resp.Limit, !.r = 0, !.outs = <<>>]
    /\ UNCHANGED <<storeVars, pipeVars>>

\* taxonList after an inner loop that decoded no page
taxonListFails ==
    /\ fetch.op \in {"TaxonName", "Children", "Synonym"}
    /\ fetch.stage = "loop"
    /\ ~MoreAttempts(fetch.r)
    /\ fetch' = GivesUp(fetch)
    /\ UNCHANGED <<storeVars, pipeVars>>

\* the caller has the result; the next call starts afresh
FetchReturns ==
    /\ fetch.stage = "done"
    /\ fetch' = NoFetch
    /\ UNCHANGED <<storeVars, pipeVars>>

InitFetch ==
    /\ tx = NewTaxonomy
    /\ remote = EmptyMap
    /\ pc = "idle"
    /\ call = NoCall
    /\ last = NoLast
    /\ NoRequests
    /\ fetch = NoFetch

NextFetch ==
    \/ SpeciesIDCall
    \/ SpeciesIDAttempt
    \/ SpeciesIDFails
    \/ taxonListCall
    \/ taxonListAttempt
    \/ taxonListFails
    \/ FetchReturns

SpecFetch == InitFetch /\ [][NextFetch]_vars

----------------------------------------------------------------------------
(* Properties *)

\* the identifiers under which t holds a node that pre did not hold
Inserted(pre, t) == {i \in DOMAIN t.ids : i \notin DOMAIN pre.ids \/ Taxon(t, i) # Taxon(pre, i)}

\* the inserted nodes whose parent was not inserted with them
MostAncestral(pre, t) == {i \in Inserted(pre, t) : Taxon(t, i).Parent \notin Inserted(pre, t)}

\* the node data d carries the record sp
FromRecord(d, sp) ==
    /\ d.Name = (IF sp.CanonicalName # <<>> THEN sp.CanonicalName ELSE sp.Species)
    /\ d.ID = (IF sp.NubKey # 0 THEN sp.NubKey ELSE sp.Key)
    /\ d.Status = ToLower(sp.TaxonomicStatus)
    /\ d.Rank = GetRank(sp.Rank)

\* accepted, with a defined rank within the ceiling
WithinCeiling(d, maxRank) == d.Status = "accepted" /\ d.Rank # Unranked /\ d.Rank <= maxRank

\* every record is a backbone record (NubKey = Key) that carries a name
Backbone(ls) ==
    \A j \in DOMAIN ls :
        /\ ls[j].NubKey = ls[j].Key
        /\ (ls[j].CanonicalName # <<>> \/ ls[j].Species # <<>>)

\* how many of the candidates have status accepted
NumAccepted(ls) == Cardinality({i \in DOMAIN ls : ToLower(ls[i].TaxonomicStatus) = "accepted"})

\* the accepted candidate of a list that has exactly one
TheAccepted(ls) == ls[CHOOSE i \in DOMAIN ls : ToLower(ls[i].TaxonomicStatus) = "accepted"]

\* the identifiers met from id by following Parent through stored nodes that
\* are not accepted and ranked; the last one may be such a node or unknown
ParentPaths(t, id) ==
    {p \in UNION {[1..n -> 0..MaxId] : n \in 1..(MaxId + 2)} :
        /\ p[1] = id
        /\ \A j \in 1..(Len(p) - 1) :
            /\ p[j] \in DOMAIN t.ids
            /\ ~(Taxon(t, p[j]).Status = "accepted" /\ Taxon(t, p[j]).Rank # Unranked)
            /\ p[j + 1] = Taxon(t, p[j]).Parent}

\* C1: AddFromGBIF terminates on every finite set of remote records, cyclic
\* references included: a walk never goes back to fetch an identifier that it
\* has already fetched (the walk is deterministic, so going back once is
\* going back for ever).
C1_WalkNeverRefetches ==
    (pc = "walk" /\ call.op = "AddFromGBIF" /\ WalkGoesOn(tx, call)) => call.cur \notin call.seen

\* C2: when a fetch of AddFromGBIF or AddNameFromGBIF fails, the call returns
\* the error and the store is the store the call started from, whatever was
\* fetched before; and no call changes the store while its walk is going on.
C2_FetchErrorLeavesStore ==
    /\ (last.op \in {"AddFromGBIF", "AddNameFromGBIF"} /\ last.fetchErr)
            => (last.res = "error" /\ tx = last.pre)
    /\ (pc = "walk") => tx = call.pre

\* a walk of AddNameFromGBIF failed on its second fetch
C2_Witness ==
    /\ last.op = "AddNameFromGBIF"
    /\ last.fetchErr
    /\ last.res = "error"
    /\ last.nfetch >= 2
    /\ last.hasSp

C4_Idempotent ==
    /\ (last.op = "AddFromGBIF" /\ last.repeat /\ last.res = "nil") => tx = last.pre
    /\ (last.op = "AddFromGBIF" /\ last.id \in DOMAIN last.pre.ids)
            => (last.res = "nil" /\ last.nfetch = 0 /\ ~last.fetchErr /\ tx = last.pre)
    /\ (pc = "walk" /\ call.op = "AddFromGBIF" /\ call.id \in DOMAIN call.pre.ids)
            => call.ls = <<>>

\* a second call that fetched again, on a store that is not empty, and changed
\* nothing
C4_Witness ==
    /\ last.op = "AddFromGBIF"
    /\ last.repeat
    /\ last.res = "nil"
    /\ last.nfetch >= 1
    /\ last.pre # NewTaxonomy
    /\ tx = last.pre

\* C5: when the name search of AddNameFromGBIF answers with two or more
\* candidates of which none or several are accepted, the call returns
\* ErrAmbiguous with the identifier of every candidate, in order, fetches
\* nothing more and leaves the store unchanged.
C5_AmbiguousName ==
    /\ (last.op = "AddNameFromGBIF" /\ Len(last.cands) >= 2 /\ NumAccepted(last.cands) # 1) =>
        /\ last.res = "ambiguous"
        /\ last.errIDs = [i \in DOMAIN last.cands |-> last.cands[i].Key]
        /\ last.nfetch = 0
        /\ tx = last.pre
    /\ (pc = "walk" /\ call.op = "AddNameFromGBIF" /\ Len(call.cands) >= 2)
            => NumAccepted(call.cands) = 1

\* two accepted candidates, on a store that is not empty
C5_Witness ==
    /\ last.op = "AddNameFromGBIF"
    /\ last.res = "ambiguous"
    /\ Len(last.errIDs) = 2
    /\ NumAccepted(last.cands) = 2
    /\ last.pre # NewTaxonomy

\* C6: when the name search answers with two or more candidates of which
\* exactly one is accepted, AddNameFromGBIF goes on with that candidate
\* wherever it stands in the list, returns nil unless a fetch fails, and every
\* node it inserts carries that candidate or a record fetched on its chain.
C6_SingleAccepted ==
    /\ (last.op = "AddNameFromGBIF" /\ Len(last.cands) >= 2 /\ NumAccepted(last.cands) = 1) =>
        /\ last.hasSp
        /\ last.sp = TheAccepted(last.cands)
        /\ last.res = (IF last.fetchErr THEN "error" ELSE "nil")
        /\ \A i \in DOMAIN last.pre.ids :
            i \in DOMAIN tx.ids /\ Taxon(tx, i) = Taxon(last.pre, i)
        /\ \A i \in Inserted(last.pre, tx) :
            \E r \in {last.sp} \cup Range(last.ls) : FromRecord(Taxon(tx, i), r)
    /\ (pc = "walk" /\ call.op = "AddNameFromGBIF" /\ Len(call.cands) >= 2) =>
        /\ call.hasSp
        /\ call.sp = TheAccepted(call.cands)

\* the accepted candidate came second; it was inserted, the first was not
C6_Witness ==
    /\ last.op = "AddNameFromGBIF"
    /\ last.res = "nil"
    /\ Len(last.cands) = 2
    /\ NumAccepted(last.cands) = 1
    /\ last.sp = last.cands[2]
    /\ last.sp.Key \in Inserted(last.pre, tx)
    /\ last.cands[1].Key \notin DOMAIN tx.ids

\* C7: after Del(id), every c of Children(id) and id itself, as they were
\* before the call, has an empty Taxon, is in no ByName result, in no root set
\* and in no child set, and no name maps to an empty set of identifiers.
C7_DelRemovesSubtree ==
    (last.op = "Del" /\ last.res = "ok") =>
        /\ \A c \in last.gone :
            /\ Taxon(tx, c) = EmptyTaxon
            /\ \A n \in DOMAIN tx.names : c \notin ByName(tx, n)
            /\ c \notin DOMAIN tx.root
            /\ \A a \in DOMAIN tx.heap : c \notin DOMAIN tx.heap[a].children
        /\ \A n \in DOMAIN tx.names : tx.names[n] # {}

\* C8: AcceptedAndRanked(id) returns the empty taxon, or a stored taxon that is
\* accepted and not Unranked and is id itself or the nearest such node on the
\* way up from id through the parents; it returns the empty taxon only when
\* that way leaves the store.
C8_NearestAcceptedAndRanked ==
    (last.op = "AcceptedAndRanked" /\ last.res = "ok") =>
        /\ \/ last.out = EmptyTaxon
           \/ /\ last.out.ID \in DOMAIN tx.ids
              /\ Taxon(tx, last.out.ID) = last.out
              /\ last.out.Status = "accepted"
              /\ last.out.Rank # Unranked
        /\ \E p \in ParentPaths(tx, last.id) :
            IF p[Len(p)] \in DOMAIN tx.ids
            THEN last.out = Taxon(tx, p[Len(p)])
            ELSE last.out = EmptyTaxon

\* the answer is an ancestor of id, not id itself
C8_Witness ==
    /\ last.op = "AcceptedAndRanked"
    /\ last.res = "ok"
    /\ last.out # EmptyTaxon
    /\ last.out.ID # last.id
    /\ last.id \in DOMAIN tx.ids

\* C9: AcceptedAndRanked(id) terminates on every store that Read and the add
\* operations produce: its loop never comes back to an identifier it has
\* already looked at (the store does not change meanwhile, so coming back
\* once is coming back for ever).
C9_LoopNeverComesBack ==
    (pc = "ar") => call.cur \notin call.seen

\* C10: after AddSpecies, every stored identifier id has Taxon(id).ID = id and
\* is in ByName(Taxon(id).Name), whatever name the record carried.
C10_StoredAndIndexed ==
    (last.op = "AddSpecies") =>
        \A id \in DOMAIN tx.ids :
            /\ Taxon(tx, id).ID = id
            /\ id \in ByName(tx, Taxon(tx, id).Name)

\* following Parent from id through stored nodes ends at a node with parent
\* 0 and meets no node twice
RECURSIVE ClimbsToRoot(_, _, _)
ClimbsToRoot(t, id, seen) ==
    IF id \in seen \/ id \notin DOMAIN t.ids THEN FALSE
    ELSE IF Taxon(t, id).Parent = 0 THEN TRUE
    ELSE ClimbsToRoot(t, Taxon(t, id).Parent, seen \cup {id})

\* the identifier AddSpecies gives the record: the nub key, or the raw key
\* when the nub key is 0
AssignedID(sp) == IF sp.NubKey # 0 THEN sp.NubKey ELSE sp.Key

\* C11: round trip: for every store reached through Read, AddSpecies and
\* Del, Write ends, Read of what it wrote succeeds, and the store read has the
\* same identifiers, each with the same name, author, id, rank, status and
\* parent.
C11_RoundTrip ==
    /\ Write(tx).res = "ok"
    /\ ReadWritten(tx).res = "ok"
    /\ DOMAIN ReadWritten(tx).t.ids = DOMAIN tx.ids
    /\ \A id \in DOMAIN tx.ids : Taxon(ReadWritten(tx).t, id) = Taxon(tx, id)

\* C12: the edges are the same in both directions: a stored node with a
\* stored non-zero parent is in that parent's children; every member of a
\* stored node's children is the node stored under its identifier and has
\* that node as parent; a stored node with parent 0 is in the root set; and no
\* node is both in the root set and in a child set.
C12_EdgesBothWays ==
    /\ \A id \in DOMAIN tx.ids :
        LET p == Taxon(tx, id).Parent
        IN  /\ (p # 0 /\ p \in DOMAIN tx.ids) =>
                /\ id \in DOMAIN tx.heap[tx.ids[p]].children
                /\ tx.heap[tx.ids[p]].children[id] = tx.ids[id]
            /\ (p = 0) => (id \in DOMAIN tx.root /\ tx.root[id] = tx.ids[id])
    /\ \A p \in DOMAIN tx.ids :
        \A c \in DOMAIN tx.heap[tx.ids[p]].children :
            /\ c \in DOMAIN tx.ids
            /\ tx.heap[tx.ids[p]].children[c] = tx.ids[c]
            /\ Taxon(tx, c).Parent = p
    /\ \A r \in DOMAIN tx.root :
        \A a \in DOMAIN tx.heap :
            /\ tx.root[r] \notin Range(tx.heap[a].children)
            /\ r \notin DOMAIN tx.heap[a].children

\* C13: the parent references are acyclic: from every stored node, following
\* Parent ends at a node with parent 0 without meeting a node twice.
C13_ParentsAcyclic ==
    \A id \in DOMAIN tx.ids : ClimbsToRoot(tx, id, {})

\* C14: AddSpecies leaves the whole store as it is whenever the identifier it
\* would give the record is already stored.
C14_KnownRecordIsNoOp ==
    \A sp \in NameRecords :
        AssignedID(sp) \in DOMAIN tx.ids => AddSpecies(tx, sp) = tx

\* C15: pacing: every physical request but the goroutine's first starts
\* after a sleep of Wait that followed the request before it, whether that
\* one ended in a response or in a transport error.
C15_PacedRequests ==
    \A w \in DOMAIN workers : workers[w].paced

\* C16: at most one physical request is in flight, and a request starts only
\* when the outcome of every earlier one was received by its caller.
C16_OneRequestAtATime ==
    /\ Cardinality({w \in DOMAIN workers : workers[w].pc = "get"}) <= 1
    /\ Cardinality(pending) <= 1
    /\ \A w \in DOMAIN workers : workers[w].pc = "get" => pending = {workers[w].r}

\* a second request is in flight after the first was handed to its caller
C16_Witness ==
    \E w \in DOMAIN workers :
        /\ workers[w].pc = "get"
        /\ workers[w].n = 2
        /\ \E c \in Procs : c # workers[w].r /\ procs[c].got # "none"

\* C18: the queue never holds more than Buffer requests; a caller that
\* submits to a full queue waits with its request outside the queue, and
\* callers wait only while the queue is full, so the first of them is let in
\* when the goroutine takes a request out.
C18_QueueBounded ==
    \A i \in DOMAIN chans :
        /\ Len(chans[i].buf) <= Buffer
        /\ chans[i].sendq # <<>> => Len(chans[i].buf) = Buffer
        /\ \A c \in Procs :
            procs[c].pc = "blocked" <=>
                (c \in Range(chans[i].sendq) /\ c \notin Range(chans[i].buf))

\* a caller that waited on the full queue has its request in the queue
C18_Witness ==
    \E c \in Procs :
        /\ procs[c].waited
        /\ procs[c].pc = "submitted"
        /\ c \in Range(chans[reqChan].buf)

\* C19: whatever the number of Open calls, one queue is made and one
\* goroutine started, with the first call.
C19_OneQueueOneWorker ==
    /\ Len(chans) <= 1
    /\ Len(workers) <= 1
    /\ opens >= 1 => (Len(chans) = 1 /\ Len(workers) = 1 /\ reqChan = 1 /\ workers[1].rc = 1)

\* Open was called three times
C19_Witness ==
    /\ opens = MaxOpens
    /\ Len(chans) = 1
    /\ Len(workers) = 1

\* the attempts of the running call made for the page at offset off
AttemptsAt(f, off) == SelectSeq(f.log, LAMBDA a : a.off = off)

\* the offsets of the pages the running call decoded, in the order of decoding
RECURSIVE DecodedPages(_)
DecodedPages(log) ==
    IF log = <<>> THEN <<>>
    ELSE IF Head(log).ok THEN <<Head(log).off>> \o DecodedPages(Tail(log))
    ELSE DecodedPages(Tail(log))

\* Key = NubKey
OfBackbone(sp) == sp.Key = sp.NubKey

\* C17: for SpeciesID and for every page of a list fetch, at most Retry
\* attempts are made and none follows a success; the call fails only after
\* Retry failed attempts in a row for one request, with the error of the last
\* of them, and with "no answer" only when no attempt left an error.
C17_BoundedRetries ==
    /\ \A off \in 0..(MaxRecs + MaxLimit) :
        LET as == AttemptsAt(fetch, off)
        IN  /\ Len(as) <= Retry
            /\ \A i \in 1..(Len(as) - 1) : ~as[i].ok
    /\ fetch.res = "ok" => (fetch.log # <<>> /\ fetch.log[Len(fetch.log)].ok)
    /\ fetch.res \in {"error", "noanswer"} =>
        /\ Len(fetch.outs) = Retry
        /\ Len(fetch.log) >= Retry
        /\ \A i \in 1..Retry :
            /\ fetch.outs[i] # "ok"
            /\ fetch.log[Len(fetch.log) - Retry + i] = [off |-> fetch.off, ok |-> FALSE]
    /\ fetch.res = "error" =>
        fetch.resErr = [kind |-> fetch.outs[Retry], n |-> fetch.made]
    /\ fetch.res = "noanswer" <=>
        (fetch.stage = "done" /\ fetch.res \notin {"ok", "empty"} /\ fetch.err = NoErr)

\* a list fetch decoded its first page at the second attempt or later and
\* failed on a later page after Retry failed attempts, the last one a decode
\* error
C17_Witness ==
    /\ fetch.op = "Children"
    /\ fetch.res = "error"
    /\ fetch.off > 0
    /\ fetch.resErr.kind = "decode"
    /\ fetch.outs[1] = "transport"
    /\ \E i \in DOMAIN fetch.log : fetch.log[i].ok /\ i > 1

\* C20: a list fetch decodes the pages at offsets 0, Limit, 2 Limit, ... each
\* once and in this order whatever attempts failed in between, holds at any
\* time the backbone records (Key = NubKey) of the pages decoded so far in the
\* order of the service, ends with the page that reports EndOfRecords, and
\* then returns the backbone records of the whole list.
C20_PagesInOrder ==
    fetch.op \in {"TaxonName", "Children", "Synonym"} /\ fetch.res \in {"none", "ok"} =>
        LET pages == DecodedPages(fetch.log)
            seen == IF fetch.res = "ok" THEN Len(fetch.recs)
                    ELSE IF fetch.off < Len(fetch.recs) THEN fetch.off ELSE Len(fetch.recs)
        IN  /\ \A i \in DOMAIN pages : pages[i] = (i - 1) * fetch.limit
            /\ fetch.ls = SelectSeq(SubSeq(fetch.recs, 1, seen), OfBackbone)
            /\ fetch.res = "none" => fetch.off = Len(pages) * fetch.limit
            /\ fetch.res = "ok" =>
                /\ pages # <<>>
                /\ Page(fetch.recs, fetch.limit, pages[Len(pages)]).EndOfRecords
                /\ \A i \in 1..(Len(pages) - 1) :
                    ~Page(fetch.recs, fetch.limit, pages[i]).EndOfRecords

\* a fetch of three pages with records in and out of the backbone ended,
\* with failed attempts on the way
C20_Witness ==
    /\ fetch.op = "Synonym"
    /\ fetch.res = "ok"
    /\ Len(DecodedPages(fetch.log)) = 3
    /\ Len(fetch.log) > 4
    /\ Len(fetch.ls) = 2
    /\ Len(fetch.recs) = 3

\* the identifier a row holds in field f, when the field is a number
FieldID(f) == ParseInt(f).val

\* the rows of the table that Read does not skip: a name, and the first with
\* their identifier
Loaded(rows) ==
    {i \in DOMAIN rows :
        /\ Canon(rows[i].name) # <<>>
        /\ \A j \in 1..(i - 1) :
            Canon(rows[j].name) # <<>> => rows[j].taxonKey # rows[i].taxonKey}

\* a table with the six columns whose identifiers and parents are positive
\* numbers, every parent being the identifier of another row of the table
WellFormed(c) ==
    /\ \A h \in DOMAIN headerCols : \E i \in DOMAIN c.header : c.header[i] = headerCols[h]
    /\ \A i \in DOMAIN c.named :
        /\ Canon(c.named[i].name) # <<>>
        /\ IsDigit(c.named[i].taxonKey[1])
        /\ c.named[i].parent # <<>> =>
            \E j \in Loaded(c.named) :
                j # i /\ c.named[j].taxonKey = c.named[i].parent

\* C21: Read builds the parent edges whatever the order of the rows: on a
\* table whose rows name as parent a row that stands before or after them,
\* Read succeeds, and afterwards Parents of the row holds the parent and
\* Children of the parent holds the row.
C21_AnyRowOrder ==
    (last.op = "Read" /\ WellFormed(call)) =>
        /\ last.res = "ok"
        /\ \A i \in Loaded(call.named) :
            call.named[i].parent # <<>> =>
                /\ FieldID(call.named[i].parent) \in Parents(tx, FieldID(call.named[i].taxonKey))
                /\ FieldID(call.named[i].taxonKey) \in Children(tx, FieldID(call.named[i].parent))

\* C22: Read returns an error, and no store, on a header that lacks one of
\* the six columns and on a table with a row that has a name and whose
\* identifier, or non-empty parent, is not a number or is negative.
C22_MalformedTable ==
    (/\ last.op = "Read"
     /\ \/ \E h \in DOMAIN headerCols :
              \A i \in DOMAIN call.header : ToLower(call.header[i]) # ToLower(headerCols[h])
        \/ \E i \in DOMAIN call.named :
              /\ Canon(call.named[i].name) # <<>>
              /\ \/ ~IsDigit(call.named[i].taxonKey[1])
                 \/ call.named[i].parent # <<>> /\ ~IsDigit(call.named[i].parent[1]))
        => (last.res = "error" /\ tx = NewTaxonomy)

\* the ranks, other than Unranked, of the stored nodes
DefinedRanks(t) == {Taxon(t, id).Rank : id \in DOMAIN t.ids} \ {Unranked}

\* C23: MinRank is the smallest rank other than Unranked among all stored
\* nodes, and Unranked when no node has a rank, whatever the shape of the
\* tree.
C23_MinRankOverAllNodes ==
    MinRank(tx) = (IF DefinedRanks(tx) = {} THEN Unranked
                   ELSE CHOOSE r \in DefinedRanks(tx) : \A q \in DefinedRanks(tx) : r <= q)

\* C24: no stored node with a rank has a stored parent with a rank of larger
\* ordinal.
C24_RankNeverAboveParent ==
    \A id \in DOMAIN tx.ids :
        LET d == Taxon(tx, id)
        IN  (d.Rank # Unranked /\ d.Parent \in DOMAIN tx.ids /\ Taxon(tx, d.Parent).Rank # Unranked)
                => Taxon(tx, d.Parent).Rank <= d.Rank

\* the first of the record's accepted, parent and basionym references that
\* is the identifier of a stored node; 0 when none is
FirstResolving(t, sp) ==
    IF sp.AcceptedKey # 0 /\ sp.AcceptedKey \in DOMAIN t.ids THEN sp.AcceptedKey
    ELSE IF sp.ParentKey # 0 /\ sp.ParentKey \in DOMAIN t.ids THEN sp.ParentKey
    ELSE IF sp.BasionymKey # 0 /\ sp.BasionymKey \in DOMAIN t.ids THEN sp.BasionymKey
    ELSE 0

\* C25: a node that AddSpecies inserts has as parent the first of the
\* accepted, parent and basionym references that is a stored node, and is a
\* root only when none of the three is.
C25_FirstResolvingReference ==
    \A sp \in NameRecords :
        LET id == AssignedID(sp)
            t2 == AddSpecies(tx, sp)
        IN  (id \notin DOMAIN tx.ids /\ id \in DOMAIN t2.ids) =>
                /\ Taxon(t2, id).Parent = FirstResolving(tx, sp)
                /\ id \in DOMAIN t2.root <=> FirstResolving(tx, sp) = 0

\* a before b in the order of siblings: Unranked first, then ascending rank,
\* then accepted before the other statuses, then name, then identifier
SiblingBefore(a, b) ==
    IF a.Rank # b.Rank THEN a.Rank = Unranked \/ (b.Rank # Unranked /\ a.Rank < b.Rank)
    ELSE IF (a.Status = "accepted") # (b.Status = "accepted") THEN a.Status = "accepted"
    ELSE IF a.Name # b.Name THEN CompareStr(a.Name, b.Name) < 0
    ELSE a.ID < b.ID

\* C26: Write gives, after the header, one row for every stored node and no
\* other, a parent before its children and with only its descendants between
\* it and them, roots and siblings in the sibling order.
C26_EveryNodeOnceInOrder ==
    LET w == Write(tx)
        at(i) == ParseInt(w.rows[i].taxonKey).val
    IN  /\ w.res = "ok"
        /\ Len(w.rows) = Cardinality(DOMAIN tx.ids)
        /\ \A id \in DOMAIN tx.ids : \E i \in DOMAIN w.rows : at(i) = id
        /\ \A i \in DOMAIN w.rows :
            /\ at(i) \in DOMAIN tx.ids
            /\ w.rows[i] = writeRow(Taxon(tx, at(i)))
            /\ Taxon(tx, at(i)).Parent # 0 =>
                \E j \in 1..(i - 1) :
                    /\ at(j) = Taxon(tx, at(i)).Parent
                    /\ \A k \in (j + 1)..(i - 1) : at(j) \in Parents(tx, at(k))
            /\ \A k \in (i + 1)..Len(w.rows) :
                Taxon(tx, at(i)).Parent = Taxon(tx, at(k)).Parent =>
                    SiblingBefore(Taxon(tx, at(i)), Taxon(tx, at(k)))

\* C27: the records read from the text that the Writer made of a list of
\* records are, one Read after the other, the records of the list, and the
\* Read after the last one reports the end of the text.
C27_TsvRoundTrip ==
    call.op = "tsv" =>
        /\ call.res \in {"none", "EOF"}
        /\ Len(call.got) <= Len(call.records)
        /\ call.got = SubSeq(call.records, 1, Len(call.got))
        /\ call.res = "EOF" => call.got = call.records

\* two records were read back, with an escaped backslash before a t and an
\* empty field among them
C27_Witness ==
    /\ call.op = "tsv"
    /\ call.res = "EOF"
    /\ Len(call.got) = 2
    /\ call.got[1] = <<<<"\\", "t">>>>
    /\ call.got[2] = <<<<"\n", "\t">>>>

\* the places where the request of caller c is: the buffer, the send queue,
\* the goroutine
PlacesOf(c) ==
    Cardinality({<<i, k>> \in (DOMAIN chans) \X (1..(Buffer + NCallers)) :
                    k \in DOMAIN chans[i].buf /\ chans[i].buf[k] = c})
    + Cardinality({<<i, k>> \in (DOMAIN chans) \X (1..NCallers) :
                    k \in DOMAIN chans[i].sendq /\ chans[i].sendq[k] = c})
    + Cardinality({w \in DOMAIN workers : workers[w].r = c})

\* a caller that waits has received nothing yet and its request is in one
\* place; a caller that is back has received one outcome, an error or a
\* response, and its request is nowhere
OneOutcomeEach ==
    \A c \in Procs :
        /\ procs[c].pc \in {"blocked", "submitted", "select"} =>
            (procs[c].n = 0 /\ procs[c].got = "none" /\ PlacesOf(c) = 1)
        /\ procs[c].pc = "idle" =>
            /\ PlacesOf(c) = 0
            /\ procs[c].n <= 1
            /\ procs[c].n = 1 <=> procs[c].got \in {"err", "ans"}

\* the request a goroutine starts is the one that waited longest, and the
\* order of the others stays
ServedInOrder ==
    \A w \in DOMAIN workers :
        (workers[w].pc = "recv" /\ workers'[w].pc = "get") =>
            LET q == chans[workers[w].rc].buf \o chans[workers[w].rc].sendq
                q2 == chans'[workers[w].rc].buf \o chans'[workers[w].rc].sendq
            IN  workers'[w].r = Head(q) /\ q2 = Tail(q)

\* C28: every submitted request gets one outcome, an error or a response,
\* delivered to the caller that submitted it; the requests are served in the
\* order in which they were submitted; and every caller that submitted comes
\* back with its outcome.
C28_EveryCallerReturns ==
    /\ []OneOutcomeEach
    /\ [][ServedInOrder]_vars
    /\ \A c \in Procs :
        (procs[c].pc \in {"blocked", "submitted", "select"})
            ~> (procs[c].pc = "idle" /\ procs[c].n = 1)

\* a caller that waited on the full queue is back with an error, after a
\* caller that is back with a response
C28_Witness ==
    \E c \in Procs :
        /\ procs[c].waited
        /\ procs[c].pc = "idle"
        /\ procs[c].got = "err"
        /\ procs[c].n = 1
        /\ \E d \in Procs : d # c /\ procs[d].pc = "idle" /\ procs[d].got = "ans"

\* the record ls[j] of a finished walk was inserted by it
InsertedRecord(j) ==
    /\ AssignedID(last.ls[j]) \in Inserted(last.pre, tx)
    /\ FromRecord(Taxon(tx, AssignedID(last.ls[j])), last.ls[j])

\* C29: after an AddFromGBIF that returns nil, with its fetched records
\* r1, ..., rk held most ancestral first (ls = rk, ..., r1): every inserted
\* record but rk has as parent the identifier of the record fetched after it,
\* is in the children of that node, and is no root.
C29_ChainOfFetchedRecords ==
    (last.op = "AddFromGBIF" /\ last.res = "nil") =>
        \A j \in 2..Len(last.ls) :
            InsertedRecord(j) =>
                LET id == AssignedID(last.ls[j])
                    up == AssignedID(last.ls[j - 1])
                IN  /\ Taxon(tx, id).Parent = up
                    /\ up \in DOMAIN tx.ids
                    /\ id \in Children(tx, up)
                    /\ id \notin DOMAIN tx.root

\* C30: Del(id) leaves everything outside the deleted subtree as it was:
\* every node that is not id nor one of its Children is still stored with the
\* same data (parent included) and the same Children but for the deleted
\* ones, the roots and the ByName results are the same but for the deleted
\* identifiers, id is not stored afterwards, and Del of an identifier that is
\* not stored leaves the taxonomy as it was.
C30_DelTouchesOnlySubtree ==
    (last.op = "Del" /\ last.res = "ok") =>
        /\ \A i \in DOMAIN last.pre.ids \ last.gone :
            /\ i \in DOMAIN tx.ids
            /\ Taxon(tx, i) = Taxon(last.pre, i)
            /\ Children(tx, i) \ last.gone = Children(last.pre, i) \ last.gone
        /\ DOMAIN tx.ids \subseteq DOMAIN last.pre.ids
        /\ DOMAIN tx.root \ last.gone = DOMAIN last.pre.root \ last.gone
        /\ \A n \in DOMAIN last.pre.names \cup DOMAIN tx.names :
            ByName(tx, n) \ last.gone = ByName(last.pre, n) \ last.gone
        /\ last.id \notin DOMAIN tx.ids
        /\ last.id \notin DOMAIN last.pre.ids => tx = last.pre

\* Del of a stored node with a descendant, beside a node that stays
C30_Witness ==
    /\ last.op = "Del"
    /\ last.res = "ok"
    /\ last.id \in DOMAIN last.pre.ids
    /\ Cardinality(last.gone) > 1
    /\ DOMAIN tx.ids # {}

====
